---- MODULE Spec2Model ----
(***************************************************************************)
(* Resource resolution and access boundary of the Open Food Facts MCP      *)
(* server: the roots registry, the resource router, the filesystem         *)
(* accessor and the providers the router dispatches to.                    *)
(*                                                                         *)
(* Strings.  A JavaScript string is modelled as the sequence of its        *)
(* characters, each a one-character TLA+ string, so that startsWith,       *)
(* replace, split and length are computed on characters as the code        *)
(* computes them.  A fixed text of the source that is only ever copied     *)
(* or compared as a whole (an error message prefix, a canned document)     *)
(* is one multi-character fragment of such a sequence; the JavaScript      *)
(* string is the concatenation of the fragments.                           *)
(***************************************************************************)
EXTENDS Integers, Sequences, FiniteSets, TLC

(***************************************************************************)
(* String primitives (ECMAScript String.prototype).                        *)
(***************************************************************************)

\* s.startsWith(p)
StartsWith(s, p) ==
    /\ Len(p) <= Len(s)
    /\ \A k \in 1..Len(p) : s[k] = p[k]

\* s.substring(i - 1): the suffix of s from position i (1-based) on
From(s, i) ==
    SubSeq(s, i, Len(s))

\* whether p occurs in s at position i (1-based)
OccursAt(s, p, i) ==
    /\ i + Len(p) - 1 <= Len(s)
    /\ \A k \in 1..Len(p) : s[i + k - 1] = p[k]

RECURSIVE IndexFrom(_, _, _)
IndexFrom(s, p, i) ==
    IF i + Len(p) - 1 > Len(s)
    THEN 0
    ELSE IF OccursAt(s, p, i) THEN i ELSE IndexFrom(s, p, i + 1)

\* s.indexOf(p), 1-based; 0 when p does not occur in s
IndexOf(s, p) ==
    IndexFrom(s, p, 1)

\* s.replace(p, ""), p a string pattern: the first occurrence only
RemoveFirst(s, p) ==
    LET i == IndexOf(s, p)
    IN  IF i = 0 THEN s ELSE SubSeq(s, 1, i - 1) \o From(s, i + Len(p))

\* s.replace(/^p/, ""), the regular expression anchored at the start
RemovePrefix(s, p) ==
    IF StartsWith(s, p) THEN From(s, Len(p) + 1) ELSE s

\* the value undefined of an optional string property; no string of
\* characters equals it, because it is not made of single characters
Undefined ==
    <<"undefined">>

\* JavaScript truthiness of an optional string: undefined and "" are falsy
Truthy(s) ==
    s # Undefined /\ s # <<>>

\* a || b on optional strings
OrElse(a, b) ==
    IF Truthy(a) THEN a ELSE b

(***************************************************************************)
(* Access boundary: the roots registry (roots-service).                    *)
(* A Root is [uri, name]; name is Undefined when the client gave none.     *)
(***************************************************************************)

UriRootA ==
    <<"f", "i", "l", "e", ":", "/", "/", "/", "a">>

NameA ==
    <<"A">>

\* the roots a client may send: the catch-all root "", two roots with the
\* same uri and different names (a tie in length), a more specific root
\* with an empty name and a root of a foreign scheme
RootPool ==
    { [uri |-> <<>>,       name |-> Undefined],
      [uri |-> UriRootA,   name |-> NameA],
      [uri |-> UriRootA,   name |-> Undefined] }

\* bound on the number of roots in one update
MaxRoots ==
    2

\* the sequences over S of length at most n
SeqUpTo(S, n) ==
    UNION { [1..k -> S] : k \in 0..n }

\* the params of a roots update: items is absent (request.params?.items is
\* undefined) or a Root[]
UpdateParams ==
    {[present |-> FALSE, items |-> <<>>]}
        \cup {[present |-> TRUE, items |-> rs] : rs \in SeqUpTo(RootPool, MaxRoots)}

\* the value getRootForURI returns when no root matches (undefined)
NoRoot ==
    [uri |-> Undefined, name |-> Undefined]

\* RootsRegistry.updateRoots: this.currentRoots = roots
updateRootsMerging(current, roots) ==
    current \o roots

updateRoots(current, roots) ==
    roots

\* the roots/update handler of setupRoots: items -> Root[]
normalizeItems(params) ==
    LET rootItems == IF params.present THEN params.items ELSE <<>>
    IN  [i \in 1..Len(rootItems) |->
            [uri |-> OrElse(rootItems[i].uri, <<>>), name |-> rootItems[i].name]]

\* RootsRegistry.isWithinRoots
isWithinRootsDenyEmpty(roots, uri) ==
    \E i \in 1..Len(roots) : StartsWith(uri, roots[i].uri) /\ roots[i].uri # <<>>

isWithinRoots(roots, uri) ==
    IF Len(roots) = 0
    THEN TRUE
    ELSE \E i \in 1..Len(roots) : StartsWith(uri, roots[i].uri)

\* Array.prototype.sort((a, b) => b.uri.length - a.uri.length): a stable
\* sort (ECMAScript 2019), here by insertion; r goes behind every element
\* that is at least as long, so equal lengths keep their order
insertByLength(sorted, r) ==
    LET k == Cardinality({i \in 1..Len(sorted) : Len(sorted[i].uri) >= Len(r.uri)})
    IN  SubSeq(sorted, 1, k) \o <<r>> \o SubSeq(sorted, k + 1, Len(sorted))

RECURSIVE sortByLengthDesc(_)
sortByLengthDesc(rs) ==
    IF rs = <<>>
    THEN <<>>
    ELSE insertByLength(sortByLengthDesc(SubSeq(rs, 1, Len(rs) - 1)), rs[Len(rs)])

\* RootsRegistry.getRootForURI
getRootForURIFirstMatch(roots, uri) ==
    LET matchingRoots == SelectSeq(roots, LAMBDA root : StartsWith(uri, root.uri))
    IN  IF matchingRoots = <<>> THEN NoRoot ELSE matchingRoots[1]

getRootForURI(roots, uri) ==
    IF Len(roots) = 0
    THEN NoRoot
    ELSE LET matchingRoots ==
                 sortByLengthDesc(SelectSeq(roots, LAMBDA root : StartsWith(uri, root.uri)))
         IN  IF matchingRoots = <<>> THEN NoRoot ELSE matchingRoots[1]

(***************************************************************************)
(* new URL(uri): the WHATWG URL parser of the runtime, for a URL without   *)
(* a base.  Modelled: the scheme (validated and lower-cased), the special  *)
(* scheme file:, the authority of a URL that has "//" after the scheme,    *)
(* the removal of "?query" and "#fragment", the dot segments of a          *)
(* hierarchical path and the opaque path of a URL without "/".             *)
(***************************************************************************)

LowerAlpha ==
    <<"a", "b", "c", "d", "e", "f", "g", "h", "i", "j", "k", "l", "m",
      "n", "o", "p", "q", "r", "s", "t", "u", "v", "w", "x", "y", "z">>

UpperAlpha ==
    <<"A", "B", "C", "D", "E", "F", "G", "H", "I", "J", "K", "L", "M",
      "N", "O", "P", "Q", "R", "S", "T", "U", "V", "W", "X", "Y", "Z">>

Digits ==
    {"0", "1", "2", "3", "4", "5", "6", "7", "8", "9"}

Alpha ==
    {LowerAlpha[i] : i \in 1..Len(LowerAlpha)} \cup {UpperAlpha[i] : i \in 1..Len(UpperAlpha)}

IsAlpha(c) ==
    c \in Alpha

ToLowerChar(c) ==
    IF c \in {UpperAlpha[i] : i \in 1..Len(UpperAlpha)}
    THEN LowerAlpha[CHOOSE i \in 1..Len(UpperAlpha) : c = UpperAlpha[i]]
    ELSE c

ToLower(s) ==
    [i \in 1..Len(s) |-> ToLowerChar(s[i])]

Whitespace ==
    {" ", "\t", "\n", "\r"}

RECURSIVE TrimStart(_)
TrimStart(s) ==
    IF s # <<>> /\ s[1] \in Whitespace THEN TrimStart(From(s, 2)) ELSE s

RECURSIVE TrimEnd(_)
TrimEnd(s) ==
    IF s # <<>> /\ s[Len(s)] \in Whitespace THEN TrimEnd(SubSeq(s, 1, Len(s) - 1)) ELSE s

\* String.prototype.trim
Trim(s) ==
    TrimEnd(TrimStart(s))

\* the part of s before the first occurrence of the character c
Before(s, c) ==
    LET i == IndexOf(s, <<c>>)
    IN  IF i = 0 THEN s ELSE SubSeq(s, 1, i - 1)

\* s.split(c) for a one-character separator
RECURSIVE Split(_, _)
Split(s, c) ==
    LET i == IndexOf(s, <<c>>)
    IN  IF i = 0 THEN <<s>> ELSE <<SubSeq(s, 1, i - 1)>> \o Split(From(s, i + 1), c)

\* segs.map(seg => "/" + seg).join("")
RECURSIVE JoinSlash(_)
JoinSlash(segs) ==
    IF segs = <<>> THEN <<>> ELSE <<"/">> \o segs[1] \o JoinSlash(From(segs, 2))

Dot ==
    <<".">>

DotDot ==
    <<".", ".">>

\* a space of a path is percent-encoded
RECURSIVE EncodePath(_)
EncodePath(s) ==
    IF s = <<>>
    THEN <<>>
    ELSE (IF s[1] = " " THEN <<"%", "2", "0">> ELSE <<s[1]>>) \o EncodePath(From(s, 2))

\* the path state of the parser over the segments of a hierarchical path:
\* ".." removes the last segment, "." removes itself, and either one as the
\* last segment leaves an empty segment
RECURSIVE PathState(_, _)
PathState(segs, out) ==
    IF segs = <<>>
    THEN out
    ELSE LET seg == segs[1]
             isLast == Len(segs) = 1
             popped == IF out = <<>> THEN out ELSE SubSeq(out, 1, Len(out) - 1)
             next == IF seg = DotDot
                     THEN (IF isLast THEN popped \o << <<>> >> ELSE popped)
                     ELSE IF seg = Dot
                          THEN (IF isLast THEN out \o << <<>> >> ELSE out)
                          ELSE out \o <<EncodePath(seg)>>
         IN  PathState(From(segs, 2), next)

\* the pathname of a hierarchical path p; p is empty or starts with "/"
Pathname(p) ==
    IF p = <<>> THEN <<>> ELSE JoinSlash(PathState(Split(From(p, 2), "/"), <<>>))

SchemeFile ==
    <<"f", "i", "l", "e">>

ForbiddenHostChars ==
    {" ", "<", ">", "[", "\\", "]", "^", "|"}

\* the host of an authority: host[:port], the port being digits
ValidAuthority(auth) ==
    LET host == Before(auth, ":")
        port == IF IndexOf(auth, <<":">>) = 0 THEN <<>> ELSE From(auth, Len(host) + 2)
    IN  /\ \A i \in 1..Len(host) : host[i] \notin ForbiddenHostChars
        /\ \A i \in 1..Len(port) : port[i] \in Digits

InvalidURL ==
    [ok |-> FALSE, protocol |-> <<>>, host |-> <<>>, pathname |-> <<>>]

\* new URL(uri); ok is FALSE where the constructor throws TypeError
ParseURL(uri) ==
    LET s == Trim(uri)   \* leading and trailing control characters and spaces are stripped
        colon == IndexOf(s, <<":">>)
        schemeOk ==
            /\ colon >= 2
            /\ IsAlpha(s[1])
            /\ \A i \in 2..(colon - 1) :
                   IsAlpha(s[i]) \/ s[i] \in Digits \/ s[i] \in {"+", "-", "."}
    IN  IF ~schemeOk
        THEN InvalidURL
        ELSE LET scheme == ToLower(SubSeq(s, 1, colon - 1))
                 rest == Before(Before(From(s, colon + 1), "#"), "?")
                 hasAuthority == StartsWith(rest, <<"/", "/">>)
                 auth == IF hasAuthority THEN Before(From(rest, 3), "/") ELSE <<>>
                 path == IF hasAuthority THEN From(rest, 3 + Len(auth)) ELSE rest
                 hier == hasAuthority \/ StartsWith(rest, <<"/">>)
             IN  IF hasAuthority /\ ~ValidAuthority(auth)
                 THEN InvalidURL
                 ELSE [ok |-> TRUE,
                       protocol |-> scheme \o <<":">>,
                       host |-> auth,
                       pathname |->
                           IF scheme = SchemeFile
                           THEN Pathname(IF StartsWith(path, <<"/">>)
                                         THEN path ELSE <<"/">> \o path)
                           ELSE IF hier THEN Pathname(path) ELSE path]

(***************************************************************************)
(* path.resolve and the project root (server-config).                      *)
(***************************************************************************)

\* process.cwd(): the directory of the server inside the project
Cwd ==
    <<"/", "r", "/", "p", "/", "m">>

\* the normalisation of path.resolve (POSIX): "" and "." are dropped and
\* ".." removes the segment before it, never going above "/"
RECURSIVE NormalizeSegments(_, _)
NormalizeSegments(segs, out) ==
    IF segs = <<>>
    THEN out
    ELSE LET seg == segs[1]
             next == IF seg = <<>> \/ seg = Dot
                     THEN out
                     ELSE IF seg = DotDot
                          THEN (IF out = <<>> THEN out ELSE SubSeq(out, 1, Len(out) - 1))
                          ELSE out \o <<seg>>
         IN  NormalizeSegments(From(segs, 2), next)

\* path.resolve(base, rel), base an absolute path
PathResolve(base, rel) ==
    LET full == IF StartsWith(rel, <<"/">>) THEN rel ELSE base \o <<"/">> \o rel
        segs == NormalizeSegments(Split(full, "/"), <<>>)
    IN  IF segs = <<>> THEN <<"/">> ELSE JoinSlash(segs)

\* projectRoot = path.resolve(process.cwd(), "..")
projectRoot ==
    PathResolve(Cwd, DotDot)

\* path.basename(p)
Basename(p) ==
    LET segs == Split(p, "/")
    IN  segs[Len(segs)]

\* path.extname(p): from the last "." of the basename, unless it is the
\* first character of the basename
Extname(p) ==
    LET b == Basename(p)
        dots == {i \in 2..Len(b) : b[i] = "."}
    IN  IF dots = {} THEN <<>> ELSE From(b, CHOOSE i \in dots : \A j \in dots : j <= i)

(***************************************************************************)
(* The filesystem.  A disk is the sequence of its entries in directory     *)
(* order, each [path, kind, content]; it is the environment of the server  *)
(* and does not change while the server runs.  The state names the disk.   *)
(***************************************************************************)

\* the paths of the files and directories of the disks
Path ==
    [ project         |-> <<"/", "r", "/", "p">>,
      lib             |-> <<"/", "r", "/", "p", "/", "l", "i", "b">>,
      libFile         |-> <<"/", "r", "/", "p", "/", "l", "i", "b", "/", "a", ".", "t", "x", "t">>,
      packageJson     |-> <<"/", "r", "/", "p", "/", "p", "a", "c", "k", "a", "g", "e", ".", "j", "s", "o", "n">>,
      sibling         |-> <<"/", "r", "/", "p", "2">>,
      siblingFile     |-> <<"/", "r", "/", "p", "2", "/", "x">>,
      parent          |-> <<"/", "r">>,
      taxonomies      |-> <<"/", "r", "/", "p", "/", "t", "a", "x", "o", "n", "o", "m", "i", "e", "s">>,
      taxonomyT       |-> <<"/", "r", "/", "p", "/", "t", "a", "x", "o", "n", "o", "m", "i", "e", "s", "/", "t", ".", "t", "x", "t">>,
      outerTaxonomies |-> <<"/", "r", "/", "t", "a", "x", "o", "n", "o", "m", "i", "e", "s">>,
      outerTaxonomyT  |-> <<"/", "r", "/", "t", "a", "x", "o", "n", "o", "m", "i", "e", "s", "/", "t", ".", "t", "x", "t">>,
      taxonomyDirT    |-> <<"/", "r", "/", "p", "/", "t", "a", "x", "o", "n", "o", "m", "i", "e", "s", "/", "t">>,
      categoriesTyped |-> <<"/", "r", "/", "p", "/", "t", "a", "x", "o", "n", "o", "m", "i", "e", "s", "/", "c", "a", "t", "e", "g", "o", "r", "i", "e", "s", ".", "t", "x", "t", ".", "t", "y", "p", "e", "d">> ]

\* the contents of the files of the disks
Content ==
    [ libFile       |-> <<"h", "i">>,
      siblingFile   |-> <<"s", "e", "c", "r", "e", "t">>,
      taxonomy      |-> <<"#", " ", "c", "\n", "\n", "e", "n", ":", "a", "\n", " ", " ", "e", "n", ":", "b", ":", "d", " ", "e", ":", "f", "\n", " ", " ", " ", " ", "x", "\n">>,
      outerTaxonomy |-> <<"y", ":", " ", "z">>,
      \* a package.json that JSON.parse accepts, with its name and version,
      \* and one that it rejects
      packageJson   |-> <<"{\"name\":\"off-server\",\"version\":\"2.0\"}">>,
      packageBroken |-> <<"{">> ]

File(path, content) ==
    [path |-> path, kind |-> "file", content |-> content]

Directory(path) ==
    [path |-> path, kind |-> "directory", content |-> <<>>]

\* a project with a library file, a manifest and a taxonomy, next to a
\* sibling directory whose name starts with the project's name
DiskProject ==
    << Directory(Path.parent), Directory(Path.project), Directory(Path.lib),
       File(Path.libFile, Content.libFile), File(Path.packageJson, Content.packageJson),
       Directory(Path.sibling), File(Path.siblingFile, Content.siblingFile),
       Directory(Path.taxonomies), File(Path.taxonomyT, Content.taxonomy),
       File(Path.categoriesTyped, Content.outerTaxonomy),
       Directory(Path.outerTaxonomies), File(Path.outerTaxonomyT, Content.outerTaxonomy) >>

\* a project without manifest whose taxonomy "t" is a directory, the
\* taxonomy file lying one level above the project
DiskOuter ==
    << Directory(Path.parent), Directory(Path.project), File(Path.lib, Content.libFile),
       Directory(Path.taxonomies), Directory(Path.taxonomyDirT),
       Directory(Path.outerTaxonomies), File(Path.outerTaxonomyT, Content.outerTaxonomy) >>

\* a project with a broken manifest and no taxonomies at all
DiskBare ==
    << Directory(Path.parent), Directory(Path.project),
       File(Path.packageJson, Content.packageBroken) >>

Disks ==
    {"project", "outer", "bare"}

\* the entries of the disk of that name
Entries(d) ==
    CASE d = "project" -> DiskProject
      [] d = "outer" -> DiskOuter
      [] OTHER -> DiskBare

Exists(d, p) ==
    \E i \in 1..Len(Entries(d)) : Entries(d)[i].path = p

Lookup(d, p) ==
    Entries(d)[CHOOSE i \in 1..Len(Entries(d)) : Entries(d)[i].path = p]

\* fs.stat(p): the kind of the entry, ENOTDIR where the path leads through
\* a file, ENOENT where nothing has that path
Stat(d, p) ==
    IF Exists(d, p)
    THEN Lookup(d, p).kind
    ELSE IF \E i \in 1..Len(Entries(d)) : /\ Entries(d)[i].kind = "file"
                                          /\ StartsWith(p, Entries(d)[i].path \o <<"/">>)
         THEN "ENOTDIR"
         ELSE "ENOENT"

\* fs.readdir(p, {withFileTypes: true}): the entries directly inside p
Readdir(d, p) ==
    LET prefix == IF p = <<"/">> THEN p ELSE p \o <<"/">>
    IN  SelectSeq(Entries(d), LAMBDA e : /\ StartsWith(e.path, prefix)
                                /\ Len(e.path) > Len(prefix)
                                /\ IndexOf(From(e.path, Len(prefix) + 1), <<"/">>) = 0)

\* the message of the error a failed filesystem call carries
ErrnoMessage(code, op, p) ==
    << IF code = "ENOTDIR" THEN "ENOTDIR: not a directory, "
                           ELSE "ENOENT: no such file or directory, ",
       op, " '" >> \o p \o <<"'">>

(***************************************************************************)
(* The response envelope and the state of one resource request.            *)
(*                                                                         *)
(* An entry of contents is [uri, text, isError, props]: isError is FALSE   *)
(* where the object has no isError property, and props holds the other     *)
(* optional properties (mimeType, metadata fields) as <<key, value>> pairs. *)
(*                                                                         *)
(* A request is at pc "running" while its code runs, at a pc naming the    *)
(* pending filesystem call while it is suspended on an await, at "thrown"  *)
(* while an exception propagates, and at "done" when the promise of        *)
(* routeResourceRequest is settled: outcome says how.                      *)
(***************************************************************************)

Entry(uri, text, isError, props) ==
    [uri |-> uri, text |-> text, isError |-> isError, props |-> props]

ErrorEntry(uri, prefix, message) ==
    Entry(uri, <<prefix>> \o message, TRUE, {})

NoRequest ==
    [pc |-> "idle", uri |-> <<>>, provider |-> "none", arg |-> <<>>,
     fullPath |-> <<>>, idx |-> 0, providers |-> <<>>, fsCalls |-> <<>>,
     threw |-> <<>>, error |-> <<>>, outcome |-> "none", contents |-> <<>>]

NewRequest(uri) ==
    [NoRequest EXCEPT !.pc = "running", !.uri = uri]

\* return { contents: [entry] }
Fulfil(r, entry) ==
    [r EXCEPT !.pc = "done", !.outcome = "fulfilled", !.contents = <<entry>>]

\* throw new Error(message), thrown by the function named by
Throw(r, by, message) ==
    [r EXCEPT !.pc = "thrown", !.error = message,
              !.threw = Append(@, [by |-> by, message |-> message])]

\* the call of a provider
Called(r, name) ==
    [r EXCEPT !.provider = name, !.providers = Append(@, name)]

\* the call of a function of fs on a path
Fs(r, op, path) ==
    [r EXCEPT !.fsCalls = Append(@, [op |-> op, path |-> path])]

\* the call of an asynchronous function of fs, awaited at pc
Await(r, op, path, pc) ==
    [Fs(r, op, path) EXCEPT !.pc = pc, !.fullPath = path]

(***************************************************************************)
(* Filesystem accessor (file-utils).                                       *)
(***************************************************************************)

AccessDeniedMessage ==
    <<"Access denied: Path outside project directory">>

\* getDirectoryContents up to its first await
getDirectoryContentsStatFirst(r, dirPath) ==
    LET fullPath == PathResolve(projectRoot, dirPath)
    IN  Await([r EXCEPT !.arg = dirPath], "stat", fullPath, "dir_stat")

getDirectoryContents(r, dirPath) ==
    LET fullPath == PathResolve(projectRoot, dirPath)
    IN  IF ~StartsWith(fullPath, projectRoot)
        THEN Throw([r EXCEPT !.arg = dirPath], "getDirectoryContents", AccessDeniedMessage)
        ELSE Await([r EXCEPT !.arg = dirPath], "stat", fullPath, "dir_stat")

\* getDirectoryContents after stat, without the test of isDirectory
getDirectoryContentsStatAnyKind(r, d) ==
    LET kind == Stat(d, r.fullPath)
    IN  IF kind \notin {"file", "directory"}
        THEN Throw(r, "fs", ErrnoMessage(kind, "stat", r.fullPath))
        ELSE Await(r, "readdir", r.fullPath, "dir_readdir")

\* getDirectoryContents after stat
getDirectoryContentsStat(r, d) ==
    LET kind == Stat(d, r.fullPath)
    IN  IF kind \notin {"file", "directory"}
        THEN Throw(r, "fs", ErrnoMessage(kind, "stat", r.fullPath))
        ELSE IF kind # "directory"
             THEN Throw(r, "getDirectoryContents", <<"Not a directory: ">> \o r.arg)
             ELSE Await(r, "readdir", r.fullPath, "dir_readdir")

\* entries.map(entry => `${entry.name} (${type})`).join("\n")
RECURSIVE ListingText(_)
ListingText(entries) ==
    IF entries = <<>>
    THEN <<>>
    ELSE LET e == entries[1]
             line == Basename(e.path) \o <<" ", "(">>
                       \o (IF e.kind = "directory" THEN <<"directory">> ELSE <<"file">>)
                       \o <<")">>
         IN  line \o (IF Len(entries) = 1 THEN <<>> ELSE <<"\n">>)
                  \o ListingText(From(entries, 2))

\* getFileContents up to its first await
getFileContents(r, filepath) ==
    LET fullPath == PathResolve(projectRoot, filepath)
    IN  IF ~StartsWith(fullPath, projectRoot)
        THEN Throw([r EXCEPT !.arg = filepath], "getFileContents", AccessDeniedMessage)
        ELSE Await([r EXCEPT !.arg = filepath], "stat", fullPath, "file_stat")

\* getFileContents after stat
getFileContentsStat(r, d) ==
    LET kind == Stat(d, r.fullPath)
    IN  IF kind \notin {"file", "directory"}
        THEN Throw(r, "fs", ErrnoMessage(kind, "stat", r.fullPath))
        ELSE IF kind # "file"
             THEN Throw(r, "getFileContents", <<"Not a file: ">> \o r.arg)
             ELSE Await(r, "readFile", r.fullPath, "file_read")

\* the decimal digits of a natural number
RECURSIVE Decimal(_)
Decimal(n) ==
    LET digit == <<"0", "1", "2", "3", "4", "5", "6", "7", "8", "9">>[(n % 10) + 1]
    IN  IF n < 10 THEN <<digit>> ELSE Decimal(n \div 10) \o <<digit>>

\* the metadata getFileContents returns with the content
FileMetadata(filepath, content) ==
    { <<"metadata.filename", Basename(filepath)>>,
      <<"metadata.extension", Extname(filepath)>>,
      <<"metadata.size", Decimal(Len(content))>>,
      <<"metadata.lastModified", <<"mtime">> >> }

(***************************************************************************)
(* Resource URIs of the catalog.                                           *)
(***************************************************************************)

OffPrefix ==
    <<"o", "p", "e", "n", "f", "o", "o", "d", "f", "a", "c", "t", "s", ":", "/", "/">>

ProtocolOff ==
    <<"o", "p", "e", "n", "f", "o", "o", "d", "f", "a", "c", "t", "s", ":">>

ProtocolFile ==
    <<"f", "i", "l", "e", ":">>

UriInfo ==
    OffPrefix \o <<"i", "n", "f", "o">>

UriSchema ==
    OffPrefix \o <<"s", "c", "h", "e", "m", "a">>

UriApiDocs ==
    OffPrefix \o <<"a", "p", "i", "-", "d", "o", "c", "s">>

UriCategories ==
    OffPrefix \o <<"t", "a", "x", "o", "n", "o", "m", "y", "/", "c", "a", "t", "e", "g", "o", "r", "i", "e", "s">>

UriStructure ==
    OffPrefix \o <<"s", "t", "r", "u", "c", "t", "u", "r", "e", "/">>

UriCodePatterns ==
    OffPrefix \o <<"c", "o", "d", "e", "-", "p", "a", "t", "t", "e", "r", "n", "s">>

UriFileOrganization ==
    OffPrefix \o <<"f", "i", "l", "e", "-", "o", "r", "g", "a", "n", "i", "z", "a", "t", "i", "o", "n">>

UriTemplate ==
    OffPrefix \o <<"t", "e", "m", "p", "l", "a", "t", "e", "/">>

\* availableResources, in the order of the source
availableResources ==
    << [uri |-> UriInfo,             developerOnly |-> FALSE],
       [uri |-> UriSchema,           developerOnly |-> FALSE],
       [uri |-> UriApiDocs,          developerOnly |-> FALSE],
       [uri |-> UriCategories,       developerOnly |-> FALSE],
       [uri |-> UriStructure,        developerOnly |-> TRUE],
       [uri |-> UriCodePatterns,     developerOnly |-> TRUE],
       [uri |-> UriFileOrganization, developerOnly |-> TRUE],
       [uri |-> UriTemplate,         developerOnly |-> TRUE] >>

\* filterResourcesForStandardMode
filterResourcesForStandardMode(resources) ==
    SelectSeq(resources, LAMBDA resource : ~resource.developerOnly)

(***************************************************************************)
(* Providers.                                                              *)
(***************************************************************************)

\* handleStaticResource: a canned text for five URIs, an error otherwise
StaticUris ==
    {UriSchema, UriApiDocs, UriCodePatterns, UriFileOrganization, UriCategories}

StaticText(uri) ==
    CASE uri = UriSchema -> <<"getDatabaseSchemaText()">>
      [] uri = UriApiDocs -> <<"getApiDocumentationText()">>
      [] uri = UriCodePatterns -> <<"getCodePatternsText()">>
      [] uri = UriFileOrganization -> <<"getFileOrganizationText()">>
      [] OTHER -> <<"getCategoriesTaxonomyText()">>

handleStaticResource(r) ==
    LET c == Called(r, "handleStaticResource")
    IN  IF r.uri \in StaticUris
        THEN Fulfil(c, Entry(r.uri, StaticText(r.uri), FALSE,
                             IF r.uri = UriCategories
                             THEN { <<"metadata.taxonomyId", <<"categories">> >>,
                                    <<"metadata.contentType", <<"text/plain">> >> }
                             ELSE {}))
        ELSE Throw(c, "handleStaticResource", <<"Static resource not found: ">> \o r.uri)

\* the catch of a handler, the error entry formatted as the router does
CaughtWithRouterPrefix(r, prefix) ==
    IF r.pc = "thrown"
    THEN Fulfil(r, ErrorEntry(r.uri, "Error processing request: ", r.error))
    ELSE r

\* the catch of a handler: the error becomes an error entry of the handler
Caught(r, prefix) ==
    IF r.pc = "thrown" THEN Fulfil(r, ErrorEntry(r.uri, prefix, r.error)) ELSE r

\* handleProjectStructure, up to the await in getDirectoryContents
handleProjectStructure(r) ==
    LET structurePath == Trim(RemoveFirst(r.uri, UriStructure))
        dirPath == IF structurePath = <<>> THEN Dot ELSE structurePath
    IN  Caught(getDirectoryContents(Called(r, "handleProjectStructure"), dirPath),
               "Error retrieving project structure: ")

\* line.match(/^(.+)\s\((.+)\)$/): the position of the white space before
\* the last "(" that leaves a name and a type, 0 when the line does not match
MatchEntry(line) ==
    LET hits == {i \in 2..(Len(line) - 3) :
                    line[i] \in Whitespace /\ line[i + 1] = "(" /\ line[Len(line)] = ")"}
    IN  IF hits = {} THEN 0 ELSE CHOOSE i \in hits : \A j \in hits : j <= i

\* the object built for one line of the listing, as JSON
StructureEntry(line, dirPath) ==
    LET i == MatchEntry(line)
        name == SubSeq(line, 1, i - 1)
        type == SubSeq(line, i + 2, Len(line) - 1)
    IN  IF i = 0
        THEN <<"{name:">> \o line \o <<",type:unknown}">>
        ELSE <<"{name:">> \o name \o <<",type:">> \o type \o <<",uri:">>
                 \o UriStructure \o (IF dirPath = Dot THEN <<>> ELSE dirPath \o <<"/">>)
                 \o name \o <<"}">>

RECURSIVE StructureEntries(_, _)
StructureEntries(lines, dirPath) ==
    IF lines = <<>>
    THEN <<>>
    ELSE StructureEntry(lines[1], dirPath) \o StructureEntries(From(lines, 2), dirPath)

\* handleProjectStructure after readdir: JSON.stringify(structure)
handleProjectStructureEnd(r, d) ==
    LET contents == ListingText(Readdir(d, r.fullPath))
        text == <<"{path:">> \o r.arg \o <<",contents:[">>
                  \o StructureEntries(Split(contents, "\n"), r.arg) \o <<"]}">>
    IN  Fulfil(r, Entry(r.uri, text, FALSE,
                        { <<"metadata.contentType", <<"application/json">> >> }))

PathnameFile ==
    <<"/", "/", "f", "i", "l", "e", "/">>

PathnameStructure ==
    <<"/", "/", "s", "t", "r", "u", "c", "t", "u", "r", "e">>

PathnameTaxonomy ==
    <<"/", "/", "t", "a", "x", "o", "n", "o", "m", "y", "/">>

PathnameTemplate ==
    <<"/", "/", "t", "e", "m", "p", "l", "a", "t", "e">>

\* handleFileContent, up to the await in getFileContents
handleFileContent(r, url) ==
    LET c == Called(r, "handleFileContent")
        filepath == RemovePrefix(url.pathname, PathnameFile)
    IN  IF filepath = <<>>
        THEN Caught(Throw(c, "handleFileContent", <<"Filepath parameter is required">>),
                    "Error processing request: ")
        ELSE Caught(getFileContents(c, filepath), "Error accessing file: ")

\* handleFileContent after readFile
handleFileContentEnd(r, d) ==
    LET content == Lookup(d, r.fullPath).content
    IN  Fulfil(r, Entry(r.uri, content, FALSE, FileMetadata(r.arg, content)))

PackageJson ==
    <<"p", "a", "c", "k", "a", "g", "e", ".", "j", "s", "o", "n">>

\* handleProjectInfo, up to the await in readJsonFile; readJsonFile
\* resolves the path and reads it without a check
handleProjectInfo(r) ==
    Await([Called(r, "handleProjectInfo") EXCEPT !.arg = PackageJson],
          "readFile", PathResolve(projectRoot, PackageJson), "info_read")

\* handleProjectInfo after readFile: a manifest that cannot be read or
\* parsed gives the default; then the directories of the project root
handleProjectInfoEnd(r, d) ==
    LET parsed == Stat(d, r.fullPath) = "file" /\ Lookup(d, r.fullPath).content = Content.packageJson
        name == IF parsed THEN <<"off-server">> ELSE <<"Open Food Facts Server">>
        version == IF parsed THEN <<"2.0">> ELSE <<"Unknown">>
        listed == Fs(r, "readdirSync", projectRoot)
        dirs == SelectSeq(Readdir(d, projectRoot), LAMBDA e : e.kind = "directory")
        names == [i \in 1..Len(dirs) |-> Basename(dirs[i].path)]
        text == <<"{name:">> \o name \o <<",version:">> \o version
                  \o <<",description:default,mainDirectories:[">>
                  \o JoinSlash(names) \o <<"],technologies:[...]}">>
    IN  IF Stat(d, projectRoot) # "directory"
        THEN Caught(Throw(listed, "fs", ErrnoMessage(Stat(d, projectRoot), "scandir", projectRoot)),
                    "Error retrieving project info: ")
        ELSE Fulfil(listed, Entry(r.uri, text, FALSE,
                                  { <<"metadata.contentType", <<"application/json">> >> }))

\* the ids of the resource templates
Template ==
    [ apiEndpoint   |-> <<"a", "p", "i", "-", "e", "n", "d", "p", "o", "i", "n", "t">>,
      taxonomy      |-> <<"t", "a", "x", "o", "n", "o", "m", "y">>,
      mongodbQuery  |-> <<"m", "o", "n", "g", "o", "d", "b", "-", "q", "u", "e", "r", "y">>,
      productSchema |-> <<"p", "r", "o", "d", "u", "c", "t", "-", "s", "c", "h", "e", "m", "a">>,
      dataImport    |-> <<"d", "a", "t", "a", "-", "i", "m", "p", "o", "r", "t">> ]

\* the keys of templates
TemplateIds ==
    {Template.apiEndpoint, Template.taxonomy, Template.mongodbQuery,
     Template.productSchema, Template.dataImport}

\* handleResourceTemplate
handleResourceTemplate(r) ==
    LET c == Called(r, "handleResourceTemplate")
        templateId == Trim(RemoveFirst(r.uri, UriTemplate))
    IN  IF templateId = <<>>
        THEN Fulfil(c, Entry(r.uri, <<"getAvailableTemplatesList()">>, FALSE,
                             { <<"metadata.contentType", <<"text/plain">> >> }))
        ELSE IF templateId \notin TemplateIds
             THEN Fulfil(c, Entry(r.uri, <<"Template '">> \o templateId
                                           \o <<"' not found. Available templates: ...">>,
                                  TRUE, {}))
             ELSE Fulfil(c, Entry(r.uri, <<"templates[">> \o templateId \o <<"].template">>,
                                  FALSE,
                                  { <<"metadata.templateId", templateId>>,
                                    <<"metadata.contentType", <<"text/markdown">> >> }))

(***************************************************************************)
(* Taxonomy locator (findTaxonomyFile), formatter (processTaxonomy) and    *)
(* handler (handleTaxonomy).                                               *)
(***************************************************************************)

DirTaxonomies ==
    <<"t", "a", "x", "o", "n", "o", "m", "i", "e", "s", "/">>

DirOuterTaxonomies ==
    <<".", ".", "/", "t", "a", "x", "o", "n", "o", "m", "i", "e", "s", "/">>

DirOuterOuterTaxonomies ==
    <<".", ".", "/", ".", ".", "/", "t", "a", "x", "o", "n", "o", "m", "i", "e", "s", "/">>

SuffixTaxonomyTxt ==
    <<"/", "t", "a", "x", "o", "n", "o", "m", "y", ".", "t", "x", "t">>

SuffixTxt ==
    <<".", "t", "x", "t">>

SuffixTyped ==
    <<".", "t", "x", "t", ".", "t", "y", "p", "e", "d">>

Categories ==
    <<"c", "a", "t", "e", "g", "o", "r", "i", "e", "s">>

\* the number of candidate paths of findTaxonomyFile
TaxonomyPathCount ==
    8

\* taxonomyPaths of findTaxonomyFile, in order
taxonomyPaths(taxonomyId) ==
    << DirTaxonomies \o taxonomyId \o SuffixTaxonomyTxt,
       DirTaxonomies \o taxonomyId \o SuffixTxt,
       DirTaxonomies \o taxonomyId,
       DirTaxonomies \o taxonomyId \o SuffixTyped,
       DirOuterTaxonomies \o taxonomyId \o SuffixTaxonomyTxt,
       DirOuterTaxonomies \o taxonomyId \o SuffixTxt,
       DirOuterTaxonomies \o taxonomyId,
       DirOuterTaxonomies \o taxonomyId \o SuffixTyped >>

\* s.join(sep) for a sequence of strings
RECURSIVE Join(_, _)
Join(parts, sep) ==
    IF parts = <<>>
    THEN <<>>
    ELSE IF Len(parts) = 1
         THEN parts[1]
         ELSE parts[1] \o sep \o Join(From(parts, 2), sep)

\* line.search(/\S/): the number of white space characters before the
\* first other character
LeadingWhitespace(line) ==
    Len(line) - Len(TrimStart(line))

\* one space for each level of depth
IndentationOneSpace(line) ==
    [i \in 1..(LeadingWhitespace(line) \div 2) |-> " "]

\* "  ".repeat(depth), depth = LeadingWhitespace / 2: repeat takes the
\* integer part of its argument
Indentation(line) ==
    [i \in 1..(2 * (LeadingWhitespace(line) \div 2)) |-> " "]

\* one line of processTaxonomy, a comment taken for an entry
formatLineCommentAsEntry(line) ==
    IF Trim(line) = <<>>
    THEN line
    ELSE LET parts == Split(Trim(line), ":")
             entryId == Trim(parts[1])
             entryDescription == IF Len(parts) > 1 THEN Trim(Join(From(parts, 2), <<":">>)) ELSE <<>>
         IN  Indentation(line) \o <<"-", " ">> \o entryId
                 \o (IF entryDescription # <<>> THEN <<":", " ">> \o entryDescription ELSE <<>>)

\* one line of processTaxonomy, the description being parts[1] alone
formatLineSecondPartOnly(line) ==
    IF Trim(line) = <<>> \/ StartsWith(line, <<"#">>)
    THEN line
    ELSE LET parts == Split(Trim(line), ":")
             entryId == Trim(parts[1])
             entryDescription == IF Len(parts) > 1 THEN Trim(parts[2]) ELSE <<>>
         IN  Indentation(line) \o <<"-", " ">> \o entryId
                 \o (IF entryDescription # <<>> THEN <<":", " ">> \o entryDescription ELSE <<>>)

\* one line of processTaxonomy
formatLine(line) ==
    IF Trim(line) = <<>> \/ StartsWith(line, <<"#">>)
    THEN line
    ELSE LET parts == Split(Trim(line), ":")
             entryId == Trim(parts[1])
             entryDescription == IF Len(parts) > 1 THEN Trim(Join(From(parts, 2), <<":">>)) ELSE <<>>
         IN  Indentation(line) \o <<"-", " ">> \o entryId
                 \o (IF entryDescription # <<>> THEN <<":", " ">> \o entryDescription ELSE <<>>)

\* formattedContent of processTaxonomy
formatTaxonomy(taxonomyId, content, path) ==
    LET lines == Split(content, "\n")
        processedTaxonomy ==
            [i \in 1..Len(lines) |-> formatLine(lines[i])]
                \o << <<"\n", "## Navigation">>,
                      <<"- Use openfoodfacts://taxonomy/{taxonomy_id} to view other taxonomies">>,
                      <<"- View the raw taxonomy file at openfoodfacts://file/taxonomies/">>
                          \o taxonomyId \o SuffixTxt >>
    IN  <<"# Taxonomy: ">> \o taxonomyId \o <<"\n", "\n", "File: ">> \o path \o <<"\n", "\n">>
            \o Join(processedTaxonomy, <<"\n">>)

\* the keys of mockTaxonomies
MockTaxonomyIds ==
    {Categories}

\* the directories listAvailableTaxonomies looks into, in order
TaxonomyDirs ==
    << PathResolve(projectRoot, DirTaxonomies), PathResolve(projectRoot, DirOuterTaxonomies),
       PathResolve(Cwd, DirOuterTaxonomies), PathResolve(Cwd, DirOuterOuterTaxonomies),
       PathResolve(Cwd, DirTaxonomies) >>

\* one directory of listAvailableTaxonomies: existsSync, then readdirSync
RECURSIVE listDirs(_, _, _)
listDirs(r, d, k) ==
    IF k > Len(TaxonomyDirs)
    THEN r
    ELSE LET dir == TaxonomyDirs[k]
             probed == Fs(r, "existsSync", dir)
         IN  listDirs(IF Exists(d, dir) THEN Fs(probed, "readdirSync", dir) ELSE probed, d, k + 1)

\* file.endsWith(".txt") && !file.startsWith("."), then the name without
\* ".txt" and ".typed"
TaxonomyNames(d, dir) ==
    LET files == IF Stat(d, dir) = "directory" THEN Readdir(d, dir) ELSE <<>>
        names == [i \in 1..Len(files) |-> Basename(files[i].path)]
        txt == SelectSeq(names, LAMBDA f :
                   /\ Len(f) >= Len(SuffixTxt)
                   /\ From(f, Len(f) - Len(SuffixTxt) + 1) = SuffixTxt
                   /\ f[1] # ".")
    IN  [i \in 1..Len(txt) |-> RemoveFirst(RemoveFirst(txt[i], SuffixTxt), <<".", "t", "y", "p", "e", "d">>)]

\* the insertion order of a Set: every name once, at its first position
RECURSIVE Distinct(_, _)
Distinct(names, seen) ==
    IF names = <<>>
    THEN seen
    ELSE Distinct(From(names, 2),
                  IF \E i \in 1..Len(seen) : seen[i] = names[1]
                  THEN seen ELSE Append(seen, names[1]))

RECURSIVE AllTaxonomyNames(_, _)
AllTaxonomyNames(d, k) ==
    IF k > Len(TaxonomyDirs)
    THEN <<>>
    ELSE TaxonomyNames(d, TaxonomyDirs[k]) \o AllTaxonomyNames(d, k + 1)

\* listAvailableTaxonomies: the names found, then the mock ones
listAvailableTaxonomies(d) ==
    Distinct(AllTaxonomyNames(d, 1), <<>>) \o << Categories \o <<" (mock available)">> >>

\* the paths handleTaxonomy probes with existsSync for its debug output
possiblePaths(taxonomyId) ==
    << PathResolve(projectRoot, DirTaxonomies \o taxonomyId \o SuffixTxt),
       PathResolve(projectRoot, DirOuterTaxonomies \o taxonomyId \o SuffixTxt),
       PathResolve(Cwd, DirOuterTaxonomies \o taxonomyId \o SuffixTxt),
       PathResolve(Cwd, DirOuterOuterTaxonomies \o taxonomyId \o SuffixTxt),
       PathResolve(Cwd, DirTaxonomies \o taxonomyId \o SuffixTxt) >>

RECURSIVE probePaths(_, _)
probePaths(r, paths) ==
    IF paths = <<>> THEN r ELSE probePaths(Fs(r, "existsSync", paths[1]), From(paths, 2))

\* handleTaxonomy when processTaxonomy found no file: the mock, or else
\* the listing of the available taxonomies
handleTaxonomyNotFound(r, d) ==
    IF r.arg \in MockTaxonomyIds
    THEN Fulfil(r, Entry(r.uri,
                         <<"# Mock ">> \o r.arg \o <<" Taxonomy (fallback content)", "\n", "\n",
                                                     "mockTaxonomies[">> \o r.arg \o <<"]">>,
                         FALSE,
                         { <<"metadata.taxonomyId", r.arg>>,
                           <<"metadata.filepath", <<"mock://">> \o r.arg>>,
                           <<"metadata.isMock", <<"true">> >> }))
    ELSE Fulfil(listDirs(r, d, 1),
                Entry(r.uri,
                      <<"Taxonomy '">> \o r.arg
                          \o <<"' not found despite checking multiple paths.", "\n", "\n",
                               "Available taxonomies include: ">>
                          \o Join(listAvailableTaxonomies(d), <<", ">>)
                          \o <<"\n", "\n", "Debug info:", "\n", "Project root: ">> \o projectRoot
                          \o <<"\n", "Working directory: ">> \o Cwd
                          \o <<"\n", "Paths checked: ">> \o Join(possiblePaths(r.arg), <<", ">>),
                      TRUE, {}))

\* findTaxonomyFile: the stat of candidate k, or null after the last one
findTaxonomyFile(r, d, k) ==
    IF k > TaxonomyPathCount
    THEN handleTaxonomyNotFound(r, d)
    ELSE Await([r EXCEPT !.idx = k], "stat",
               PathResolve(projectRoot, taxonomyPaths(r.arg)[k]), "tax_stat")

\* findTaxonomyFile after the stat of candidate idx, without the test of
\* isFile
findTaxonomyFileStatAnyKind(r, d) ==
    IF Stat(d, r.fullPath) \in {"file", "directory"}
    THEN Await(r, "readFile", r.fullPath, "tax_read")
    ELSE findTaxonomyFile(r, d, r.idx + 1)

\* findTaxonomyFile after the stat of candidate idx: a regular file is
\* read, anything else (a failed stat included) moves on to the next one
findTaxonomyFileStat(r, d) ==
    IF Stat(d, r.fullPath) = "file"
    THEN Await(r, "readFile", r.fullPath, "tax_read")
    ELSE findTaxonomyFile(r, d, r.idx + 1)

\* processTaxonomy and handleTaxonomy after the readFile of candidate idx
handleTaxonomyFound(r, d) ==
    LET path == taxonomyPaths(r.arg)[r.idx]
        content == Lookup(d, r.fullPath).content
    IN  Fulfil(r, Entry(r.uri, formatTaxonomy(r.arg, content, path), FALSE,
                        { <<"metadata.taxonomyId", r.arg>>, <<"metadata.filepath", path>> }))

\* handleTaxonomy with the mock table consulted before the locator
handleTaxonomyMockFirst(r, url, d) ==
    LET c == Called(r, "handleTaxonomy")
        taxonomyId == RemovePrefix(url.pathname, PathnameTaxonomy)
    IN  IF taxonomyId = <<>>
        THEN Caught(Throw(c, "handleTaxonomy", <<"Taxonomy ID is required">>),
                    "Error accessing taxonomy: ")
        ELSE IF taxonomyId \in MockTaxonomyIds
             THEN handleTaxonomyNotFound(probePaths([c EXCEPT !.arg = taxonomyId],
                                                    possiblePaths(taxonomyId)), d)
             ELSE findTaxonomyFile(probePaths([c EXCEPT !.arg = taxonomyId],
                                              possiblePaths(taxonomyId)), d, 1)

\* handleTaxonomy, up to the first await of findTaxonomyFile
handleTaxonomy(r, url, d) ==
    LET c == Called(r, "handleTaxonomy")
        taxonomyId == RemovePrefix(url.pathname, PathnameTaxonomy)
    IN  IF taxonomyId = <<>>
        THEN Caught(Throw(c, "handleTaxonomy", <<"Taxonomy ID is required">>),
                    "Error accessing taxonomy: ")
        ELSE findTaxonomyFile(probePaths([c EXCEPT !.arg = taxonomyId],
                                         possiblePaths(taxonomyId)), d, 1)

(***************************************************************************)
(* Resource router (resource-registry).                                    *)
(***************************************************************************)

\* a provider as the router's tests replace it (vi.mock): it returns an
\* envelope, throws, or returns a promise that rejects; NoMock is the
\* provider of the source
NoMock ==
    [kind |-> "none", message |-> <<>>]

MockMessages ==
    { <<"Handler error">>, <<>> }

Mocks ==
    {[kind |-> "return", message |-> <<>>]}
        \cup {[kind |-> k, message |-> m] : k \in {"throw", "reject"}, m \in MockMessages}

NotAwaited ==
    {}

\* the call sites of the router that await the provider's promise
Awaited ==
    {"handleProjectStructure", "handleFileContent", "handleProjectInfo",
     "handleTaxonomy", "handleResourceTemplate"}

\* the providers that are async functions: calling one never throws
AsyncProviders ==
    {"handleProjectStructure", "handleFileContent", "handleProjectInfo",
     "handleTaxonomy", "handleResourceTemplate"}

\* a call of provider name inside the try block of the router: the
\* provider itself, or its mock.  A promise that rejects is an exception
\* in the try block only where the call is awaited
Provide(r, name, mock, real) ==
    IF mock.kind = "none"
    THEN real
    ELSE LET c == Called(r, name)
         IN  CASE mock.kind = "return" ->
                    Fulfil(c, Entry(r.uri, <<"mock content">>, FALSE, {}))
               [] mock.kind = "throw" /\ name \notin AsyncProviders ->
                    Throw(c, name, mock.message)
               [] OTHER ->
                    IF name \in Awaited
                    THEN Throw(c, name, mock.message)
                    ELSE [Throw(c, name, mock.message) EXCEPT !.pc = "escaped"]

\* isResourceAccessible
isResourceAccessibleRootsOnly(uri, developer, roots) ==
    isWithinRoots(roots, uri)

isResourceAccessible(uri, developer, roots) ==
    LET matches == {i \in 1..Len(availableResources) :
                        StartsWith(uri, availableResources[i].uri)}
        resource == availableResources[CHOOSE i \in matches : \A j \in matches : i <= j]
    IN  IF ~developer /\ matches # {} /\ resource.developerOnly
        THEN FALSE
        ELSE IF StartsWith(uri, OffPrefix)
             THEN TRUE
             ELSE isWithinRoots(roots, uri)

\* the entry of the refusal without the uri of the request
AccessDeniedEntryWithoutUri(uri) ==
    Entry(<<>>,
          <<"Access denied: The requested resource is either not within any defined root or requires developer mode">>,
          TRUE, {})

AccessDeniedEntry(uri) ==
    Entry(uri,
          <<"Access denied: The requested resource is either not within any defined root or requires developer mode">>,
          TRUE, {})

\* the file: branch of the router, looking the root up in another list
\* than the one of the access check
fileBranchOtherSnapshot(r, roots) ==
    LET root == getRootForURI(<<>>, r.uri)
    IN  IF root # NoRoot
        THEN Fulfil(r, Entry(r.uri,
                             <<"File content accessed via root: ">> \o OrElse(root.name, root.uri),
                             FALSE, { <<"mimeType", <<"text/plain">> >> }))
        ELSE Throw(r, "routeResourceRequest", <<"File is not within any defined root">>)

\* the file: branch of the router
fileBranch(r, roots) ==
    LET root == getRootForURI(roots, r.uri)
    IN  IF root # NoRoot
        THEN Fulfil(r, Entry(r.uri,
                             <<"File content accessed via root: ">> \o OrElse(root.name, root.uri),
                             FALSE, { <<"mimeType", <<"text/plain">> >> }))
        ELSE Throw(r, "routeResourceRequest", <<"File is not within any defined root">>)

\* the try block of routeResourceRequest: the first branch that matches
dispatch(r, url, roots, d, mock) ==
    LET off == url.protocol = ProtocolOff
    IN  CASE off /\ StartsWith(url.pathname, PathnameStructure) ->
                Provide(r, "handleProjectStructure", mock, handleProjectStructure(r))
          [] off /\ StartsWith(url.pathname, PathnameFile) ->
                Provide(r, "handleFileContent", mock, handleFileContent(r, url))
          [] r.uri = UriInfo ->
                Provide(r, "handleProjectInfo", mock, handleProjectInfo(r))
          [] off /\ StartsWith(url.pathname, PathnameTaxonomy) ->
                IF r.uri = UriCategories
                THEN Provide(r, "handleStaticResource", mock, handleStaticResource(r))
                ELSE Provide(r, "handleTaxonomy", mock, handleTaxonomy(r, url, d))
          [] off /\ StartsWith(url.pathname, PathnameTemplate) ->
                Provide(r, "handleResourceTemplate", mock, handleResourceTemplate(r))
          [] r.uri \in {UriSchema, UriApiDocs, UriCodePatterns, UriFileOrganization} ->
                Provide(r, "handleStaticResource", mock, handleStaticResource(r))
          [] url.protocol = ProtocolFile ->
                fileBranch(r, roots)
          [] OTHER ->
                Throw(r, "routeResourceRequest", <<"Resource not found: ">> \o r.uri)

\* the catch block of routeResourceRequest
routerCatchBare(r) ==
    Caught(r, "")

routerCatch(r) ==
    Caught(r, "Error processing request: ")

\* the promise of the async function routeResourceRequest: an exception
\* that leaves the function rejects it
Settle(r) ==
    IF r.pc \in {"thrown", "escaped"}
    THEN [r EXCEPT !.pc = "done", !.outcome = "rejected"]
    ELSE r

\* routeResourceRequest(uri, developerMode), up to its first suspension
routeResourceRequestDispatchFirst(uri, developer, roots, d, mock) ==
    LET r == NewRequest(uri)
        url == ParseURL(uri)
    IN  IF ~url.ok
        THEN Settle(Throw(r, "URL", <<"Invalid URL">>))
        ELSE LET routed == Settle(routerCatch(dispatch(r, url, roots, d, mock)))
             IN  IF ~isResourceAccessible(uri, developer, roots)
                 THEN Fulfil(routed, AccessDeniedEntry(uri))
                 ELSE routed

routeResourceRequest(uri, developer, roots, d, mock) ==
    LET r == NewRequest(uri)
        url == ParseURL(uri)
    IN  IF ~url.ok
        THEN Settle(Throw(r, "URL", <<"Invalid URL">>))
        ELSE IF ~isResourceAccessible(uri, developer, roots)
             THEN Fulfil(r, AccessDeniedEntry(uri))
             ELSE Settle(routerCatch(dispatch(r, url, roots, d, mock)))

\* the pcs at which a request is suspended on a filesystem call
Suspended ==
    {"dir_stat", "dir_readdir", "file_stat", "file_read", "info_read", "tax_stat", "tax_read"}

\* the code that runs when the pending filesystem call completes, up to the
\* next suspension or the end of the provider
Continue(r, d) ==
    CASE r.pc = "dir_stat" ->
            Caught(getDirectoryContentsStat(r, d), "Error retrieving project structure: ")
      [] r.pc = "dir_readdir" -> handleProjectStructureEnd(r, d)
      [] r.pc = "file_stat" -> Caught(getFileContentsStat(r, d), "Error accessing file: ")
      [] r.pc = "file_read" -> handleFileContentEnd(r, d)
      [] r.pc = "info_read" -> handleProjectInfoEnd(r, d)
      [] r.pc = "tax_stat" -> findTaxonomyFileStat(r, d)
      [] r.pc = "tax_read" -> handleTaxonomyFound(r, d)
      [] OTHER -> r

\* the rest of routeResourceRequest around the awaited provider
Resume(r, d) ==
    IF r.pc \in Suspended THEN Settle(routerCatch(Continue(r, d))) ELSE r

(***************************************************************************)
(* The server: its state and the requests of the client.                   *)
(***************************************************************************)

\* the URIs of the requests, by name
Req ==
    [ structureLib       |-> OffPrefix \o <<"s", "t", "r", "u", "c", "t", "u", "r", "e", "/", "l", "i", "b">>,
      fileLib            |-> OffPrefix \o <<"f", "i", "l", "e", "/", "l", "i", "b", "/", "a", ".", "t", "x", "t">>,
      fileNothing        |-> OffPrefix \o <<"f", "i", "l", "e", "/">>,
      templateTaxonomy   |-> OffPrefix \o <<"t", "e", "m", "p", "l", "a", "t", "e", "/", "t", "a", "x", "o", "n", "o", "m", "y">>,
      unknown            |-> OffPrefix \o <<"u", "n", "k", "n", "o", "w", "n">>,
      listRoot           |-> OffPrefix \o <<"/", "/", "s", "t", "r", "u", "c", "t", "u", "r", "e", "?", "/", ".", ".", "/", ".", ".">>,
      listParent         |-> OffPrefix \o <<"/", "/", "s", "t", "r", "u", "c", "t", "u", "r", "e", "?", "/", ".", ".", "/", ".", ".", "/", ".", ".">>,
      listSibling        |-> OffPrefix \o <<"/", "/", "s", "t", "r", "u", "c", "t", "u", "r", "e", "?", "/", ".", ".", "/", ".", ".", "/", ".", ".", "/", "p", "2">>,
      listLib            |-> OffPrefix \o <<"/", "/", "s", "t", "r", "u", "c", "t", "u", "r", "e", "?", "/", ".", ".", "/", ".", ".", "/", "l", "i", "b">>,
      listMissing        |-> OffPrefix \o <<"/", "/", "s", "t", "r", "u", "c", "t", "u", "r", "e", "/", "l", "i", "b">>,
      readLibFile        |-> OffPrefix \o <<"/", "/", "f", "i", "l", "e", "/", "l", "i", "b", "/", "a", ".", "t", "x", "t">>,
      readNothing        |-> OffPrefix \o <<"/", "/", "f", "i", "l", "e", "/">>,
      readAbsolute       |-> OffPrefix \o <<"/", "/", "f", "i", "l", "e", "/", "/", "r">>,
      readLib            |-> OffPrefix \o <<"/", "/", "f", "i", "l", "e", "/", "l", "i", "b">>,
      taxonomyT          |-> OffPrefix \o <<"/", "/", "t", "a", "x", "o", "n", "o", "m", "y", "/", "t">>,
      taxonomyCategories |-> OffPrefix \o <<"/", "/", "t", "a", "x", "o", "n", "o", "m", "y", "/", "c", "a", "t", "e", "g", "o", "r", "i", "e", "s">>,
      taxonomyNone       |-> OffPrefix \o <<"/", "/", "t", "a", "x", "o", "n", "o", "m", "y", "/", "n", "o", "n", "e">>,
      taxonomyNothing    |-> OffPrefix \o <<"/", "/", "t", "a", "x", "o", "n", "o", "m", "y", "/">>,
      template           |-> OffPrefix \o <<"/", "/", "t", "e", "m", "p", "l", "a", "t", "e">>,
      badHost            |-> OffPrefix \o <<"a", " ", "b">>,
      fileAXF            |-> <<"f", "i", "l", "e", ":", "/", "/", "/", "a", "/", "x", "/", "f">>,
      fileA              |-> <<"f", "i", "l", "e", ":", "/", "/", "/", "a">>,
      fileAB             |-> <<"f", "i", "l", "e", ":", "/", "/", "/", "a", "b">>,
      fileC              |-> <<"f", "i", "l", "e", ":", "/", "/", "/", "c">>,
      fileUpper          |-> <<"F", "I", "L", "E", ":", "/", "/", "/", "a", "/", "x">>,
      barX               |-> <<"b", "a", "r", ":", "x">>,
      invalidUri         |-> <<"i", "n", "v", "a", "l", "i", "d", "-", "u", "r", "i", ":", "/", "/", "/">>,
      notAUri            |-> <<"n", "o", "t", " ", "a", " ", "u", "r", "i">>,
      empty              |-> <<>> ]

\* the URIs a client asks for
RequestUris ==
    { UriInfo,
      UriSchema,
      UriCodePatterns,
      UriCategories,
      UriTemplate,
      Req.structureLib,
      Req.fileLib,
      Req.fileNothing,
      Req.templateTaxonomy,
      Req.unknown,
      Req.listRoot,
      Req.listParent,
      Req.listSibling,
      Req.listLib,
      Req.listMissing,
      Req.readLibFile,
      Req.readNothing,
      Req.readAbsolute,
      Req.readLib,
      Req.taxonomyT,
      Req.taxonomyCategories,
      Req.taxonomyNone,
      Req.taxonomyNothing,
      Req.template,
      Req.badHost,
      Req.fileAXF,
      Req.fileA,
      Req.fileAB,
      Req.fileC,
      Req.fileUpper,
      Req.barX,
      Req.invalidUri,
      Req.notAUri,
      Req.empty }

\* no POST /messages has been answered
NoPost ==
    [forwarded |-> FALSE, to |-> 0, status |-> 0, body |-> <<>>]

VARIABLES
    developerMode,   \* the developerMode argument of startServer
    currentRoots,    \* RootsRegistry.currentRoots
    lastUpdate,      \* history: whether a roots update was handled, and the params of the last one
    disk,            \* the filesystem
    req,             \* the resource request being served, or the last one served
    shadow,          \* history: the same request as served under the empty root list
    taxonomyFile,    \* the content of the file findTaxonomyFile returned to processTaxonomy
    processed,       \* the formattedContent processTaxonomy made of it, <<>> before
    sseOpen,         \* the GET /sse responses in the order they arrived: TRUE until "close" is emitted
    transport,       \* the transport slot of setupHttpTransport: 0 for null, else the index of its response
    posted           \* the answer to the last POST /messages

vars ==
    <<developerMode, currentRoots, lastUpdate, disk, req, shadow, taxonomyFile, processed, sseOpen, transport, posted>>

Init ==
    /\ developerMode \in BOOLEAN
    /\ currentRoots = <<>>
    /\ lastUpdate = [seen |-> FALSE, params |-> [present |-> FALSE, items |-> <<>>]]
    /\ disk \in Disks
    /\ req = NoRequest
    /\ shadow = NoRequest
    /\ taxonomyFile = <<>>
    /\ processed = <<>>
    /\ sseOpen = <<>>
    /\ transport = 0
    /\ posted = NoPost

\* the roots/update handler registered by setupRoots
RootsUpdate(params) ==
    /\ currentRoots' = updateRoots(currentRoots, normalizeItems(params))
    /\ lastUpdate' = [seen |-> TRUE, params |-> params]
    /\ UNCHANGED <<developerMode, disk, req, shadow, taxonomyFile, processed, sseOpen, transport, posted>>

\* routeResourceRequest tabulated over the requests, modes, root lists,
\* disks and provider mocks of the model: a pure function of its arguments,
\* evaluated once per argument (f @@ <<>> is f as an explicit function)
Routed ==
    [uri \in RequestUris |->
        [developer \in BOOLEAN |->
            [roots \in SeqUpTo(RootPool, MaxRoots) |->
                [d \in Disks |->
                    [mock \in Mocks \cup {NoMock} |->
                        routeResourceRequest(uri, developer, roots, d, mock)] @@ <<>>
                ] @@ <<>>
            ] @@ <<>>
        ] @@ <<>>
    ] @@ <<>>

\* the resources/read handler: routeResourceRequest(uri, developerMode) up to
\* its first suspension
ReadResource(uri) ==
    /\ req.pc \notin Suspended
    /\ req' = Routed[uri][developerMode][currentRoots][disk][NoMock]
    /\ shadow' = Routed[uri][developerMode][<<>>][disk][NoMock]
    /\ UNCHANGED <<developerMode, currentRoots, lastUpdate, disk, taxonomyFile, processed, sseOpen, transport, posted>>

\* the completion of the pending filesystem call, the access check being
\* made again on the current root list before the request runs on
CompletesRecheckingRoots(pc) ==
    /\ req.pc = pc
    /\ req' = IF isWithinRoots(currentRoots, req.uri)
              THEN Resume(req, disk)
              ELSE Fulfil(req, AccessDeniedEntry(req.uri))
    /\ shadow' = Resume(shadow, disk)
    /\ UNCHANGED <<developerMode, currentRoots, lastUpdate, disk, taxonomyFile, processed, sseOpen, transport, posted>>

\* the pending filesystem call of the request completes and the request runs
\* on to its next suspension or to its end
Completes(pc) ==
    /\ req.pc = pc
    /\ req' = Resume(req, disk)
    /\ shadow' = Resume(shadow, disk)
    /\ UNCHANGED <<developerMode, currentRoots, lastUpdate, disk, taxonomyFile, processed, sseOpen, transport, posted>>

DirectoryStat ==
    Completes("dir_stat")

DirectoryRead ==
    Completes("dir_readdir")

FileStat ==
    Completes("file_stat")

FileRead ==
    Completes("file_read")

ManifestRead ==
    Completes("info_read")

TaxonomyStat ==
    Completes("tax_stat")

TaxonomyRead ==
    Completes("tax_read")

Next ==
    \/ \E params \in UpdateParams : RootsUpdate(params)
    \/ \E uri \in RequestUris : ReadResource(uri)
    \/ DirectoryStat
    \/ DirectoryRead
    \/ FileStat
    \/ FileRead
    \/ ManifestRead
    \/ TaxonomyStat
    \/ TaxonomyRead

Spec ==
    Init /\ [][Next]_vars

\* the router with every provider replaced by a mock, as in the router's
\* tests: a mock settles at once, and one that rejects stands for an async
\* provider
MockedReadResource(uri, mock) ==
    /\ req' = Routed[uri][developerMode][currentRoots][disk][mock]
    /\ shadow' = Routed[uri][developerMode][<<>>][disk][mock]
    /\ mock.kind = "reject" => req'.provider \in AsyncProviders \cup {"none"}
    /\ UNCHANGED <<developerMode, currentRoots, lastUpdate, disk, taxonomyFile, processed, sseOpen, transport, posted>>

NextMock ==
    \/ \E params \in UpdateParams : RootsUpdate(params)
    \/ \E uri \in RequestUris, mock \in Mocks : MockedReadResource(uri, mock)

SpecMock ==
    Init /\ [][NextMock]_vars

(***************************************************************************)
(* The formatter on its own: processTaxonomy applied to the content of a   *)
(* taxonomy file made of a few lines, each some spaces of indentation      *)
(* followed by nothing, a comment or an entry.                             *)
(***************************************************************************)

MaxIndent ==
    4

MaxLines ==
    2

\* the lines of a taxonomy file
TaxonomyLines ==
    { [i \in 1..n |-> " "] \o body :
        n \in 0..MaxIndent,
        body \in { <<>>,
                   <<"#">>,
                   <<"#", " ", "x">>,
                   <<"a">>,
                   <<"a", ":", "b">>,
                   <<"a", ":", " ", "b", ":", "c", " ">>,
                   <<"-", " ", "#">> } }

\* the contents of a taxonomy file: its lines joined by line feeds
TaxonomyFiles ==
    { Join(lines, <<"\n">>) : lines \in SeqUpTo(TaxonomyLines, MaxLines) }

InitFormat ==
    /\ developerMode = FALSE
    /\ currentRoots = <<>>
    /\ lastUpdate = [seen |-> FALSE, params |-> [present |-> FALSE, items |-> <<>>]]
    /\ disk = "bare"
    /\ req = NoRequest
    /\ shadow = NoRequest
    /\ taxonomyFile \in TaxonomyFiles
    /\ processed = <<>>
    /\ sseOpen = <<>>
    /\ transport = 0
    /\ posted = NoPost

\* processTaxonomy after findTaxonomyFile returned the file
ProcessTaxonomy ==
    /\ processed = <<>>
    /\ processed' = formatTaxonomy(<<"t">>, taxonomyFile, taxonomyPaths(<<"t">>)[2])
    /\ UNCHANGED <<developerMode, currentRoots, lastUpdate, disk, req, shadow, taxonomyFile, sseOpen, transport, posted>>

NextFormat ==
    ProcessTaxonomy

SpecFormat ==
    InitFormat /\ [][NextFormat]_vars

(***************************************************************************)
(* The HTTP transport: setupHttpTransport.                                 *)
(***************************************************************************)

\* the number of GET /sse requests of a behaviour
MaxConnections == 4

\* the state after setupHttpTransport: let transport = null
InitHttp ==
    /\ developerMode = FALSE
    /\ currentRoots = <<>>
    /\ lastUpdate = [seen |-> FALSE, params |-> [present |-> FALSE, items |-> <<>>]]
    /\ disk = "bare"
    /\ req = NoRequest
    /\ shadow = NoRequest
    /\ taxonomyFile = <<>>
    /\ processed = <<>>
    /\ sseOpen = <<>>
    /\ transport = 0
    /\ posted = NoPost

\* app.get("/sse"): a new SSEServerTransport on the response takes the slot
SseConnect ==
    /\ Len(sseOpen) < MaxConnections
    /\ sseOpen' = Append(sseOpen, TRUE)
    /\ transport' = Len(sseOpen) + 1
    /\ UNCHANGED <<developerMode, currentRoots, lastUpdate, disk, req, shadow,
                   taxonomyFile, processed, posted>>

\* res.on("close") of the response c: the listener clears the slot
SseClose(c) ==
    /\ sseOpen[c]
    /\ sseOpen' = [sseOpen EXCEPT ![c] = FALSE]
    /\ transport' = 0
    /\ UNCHANGED <<developerMode, currentRoots, lastUpdate, disk, req, shadow,
                   taxonomyFile, processed, posted>>

\* app.post("/messages"): the request is handed to the transport in the slot,
\* which answers it, or answered 400 here
PostMessages ==
    /\ posted' = IF transport # 0
                    THEN [forwarded |-> TRUE, to |-> transport, status |-> 0, body |-> <<>>]
                    ELSE [forwarded |-> FALSE, to |-> 0, status |-> 400,
                          body |-> <<"No active SSE connection found">>]
    /\ UNCHANGED <<developerMode, currentRoots, lastUpdate, disk, req, shadow,
                   taxonomyFile, processed, sseOpen, transport>>

NextHttp ==
    \/ SseConnect
    \/ \E c \in DOMAIN sseOpen : SseClose(c)
    \/ PostMessages

SpecHttp ==
    InitHttp /\ [][NextHttp]_vars

(***************************************************************************)
(* Properties.                                                             *)
(***************************************************************************)

\* p is a literal prefix of s: s is p followed by some rest
IsLiteralPrefix(p, s) ==
    Len(p) <= Len(s) /\ SubSeq(s, 1, Len(p)) = p

\* a step that serves a new request: the resources/read handler ran up to
\* the first suspension of the request, req' is its state and currentRoots
\* the root list it was served under
ReadStep ==
    lastUpdate' = lastUpdate /\ req.pc \notin Suspended /\ req'.pc # "idle"

\* C1: whenever a provider dispatched by routeResourceRequest throws or
\* rejects with message m, the request resolves (never rejects) to exactly
\* the one-entry envelope {uri, text: "Error processing request: " + m,
\* isError: true}
ProviderErrorIsEnveloped ==
    (req.pc = "done" /\ req.threw # <<>> /\ req.threw[1].by = req.provider
        /\ req.provider # "none")
        => /\ req.outcome = "fulfilled"
           /\ req.contents =
                << Entry(req.uri, <<"Error processing request: ">> \o req.threw[1].message,
                         TRUE, {}) >>

\* a provider failed with the message "Handler error" and the request
\* resolved to an error envelope
ProviderErrorEnvelopedSeen ==
    /\ req.pc = "done"
    /\ req.provider = "handleTaxonomy"
    /\ req.threw = << [by |-> "handleTaxonomy", message |-> <<"Handler error">>] >>
    /\ req.outcome = "fulfilled"
    /\ req.contents[1].isError

\* C2: for any string the URI parser rejects, routeResourceRequest does not
\* throw: the result is a one-entry error envelope whose uri is the raw
\* input, whose isError is true and whose text begins with
\* "Error processing request:"
ParseFailureIsEnveloped ==
    (req.pc = "done" /\ req.threw # <<>> /\ req.threw[1].by = "URL")
        => /\ req.outcome = "fulfilled"
           /\ Len(req.contents) = 1
           /\ req.contents[1].uri = req.uri
           /\ req.contents[1].isError
           /\ req.contents[1].text[1] = "Error processing request: "

\* C3: if the access check denies the requested URI, routeResourceRequest
\* returns an error-flagged envelope at once: no provider is invoked and no
\* filesystem operation is performed for that request
DeniedWithoutProviderOrFs ==
    [][ (ReadStep /\ req'.threw = <<>>
            /\ ~isResourceAccessible(req'.uri, developerMode, currentRoots))
        => /\ req'.pc = "done"
           /\ req'.outcome = "fulfilled"
           /\ Len(req'.contents) = 1
           /\ req'.contents[1].uri = req'.uri
           /\ req'.contents[1].isError
           /\ req'.providers = <<>>
           /\ req'.fsCalls = <<>> ]_vars

\* a file: URI outside every root of a non-empty root list was denied
DeniedSeen ==
    /\ req.pc = "done"
    /\ req.uri = Req.fileC
    /\ currentRoots # <<>>
    /\ \A i \in DOMAIN currentRoots : currentRoots[i].uri = UriRootA
    /\ req.contents = << AccessDeniedEntry(req.uri) >>
    /\ req.providers = <<>>
    /\ req.fsCalls = <<>>

\* C4: isWithinRoots(uri) is true exactly when the root list is empty or
\* some root's uri is a literal prefix of uri; so it is true for every uri
\* under the empty list and under a list with a root whose uri is ""
WithinRootsIsLiteralPrefix ==
    \A uri \in RequestUris :
        /\ isWithinRoots(currentRoots, uri)
             <=> \/ currentRoots = <<>>
                 \/ \E i \in DOMAIN currentRoots : IsLiteralPrefix(currentRoots[i].uri, uri)
        /\ currentRoots = <<>> => isWithinRoots(currentRoots, uri)
        /\ (\E i \in DOMAIN currentRoots : currentRoots[i].uri = <<>>)
             => isWithinRoots(currentRoots, uri)

\* under a list of two roots, one of them with uri "", a URI of a foreign
\* scheme was admitted, and the other root alone does not admit it
WithinEmptyUriRootSeen ==
    /\ Len(currentRoots) = 2
    /\ currentRoots[1].uri = UriRootA
    /\ currentRoots[2].uri = <<>>
    /\ ~isWithinRoots(<<currentRoots[1]>>, Req.barX)
    /\ isWithinRoots(currentRoots, Req.barX)
    /\ req.pc = "done" /\ req.uri = Req.barX
    /\ req.contents # << AccessDeniedEntry(req.uri) >>

\* C5: the root list is exactly the list of the most recent roots update
\* (nothing of an earlier update survives, nothing is merged) and is empty
\* before the first update; hence the same update twice leaves the state
\* of one
RootsAreLastUpdate ==
    IF lastUpdate.seen
    THEN currentRoots = (IF lastUpdate.params.present THEN lastUpdate.params.items ELSE <<>>)
    ELSE currentRoots = <<>>

\* an update that carried two roots was handled
RootsReplacedSeen ==
    /\ lastUpdate.seen
    /\ lastUpdate.params.present
    /\ Len(lastUpdate.params.items) = 2
    /\ currentRoots = lastUpdate.params.items

\* C6: getRootForURI(uri) returns, among the roots whose uri is a prefix of
\* uri, the one with the longest uri; among several of that length, the one
\* that comes first in the list; and none when no root matches
MostSpecificRootIsLongestFirst ==
    \A uri \in RequestUris :
        LET matching == {i \in DOMAIN currentRoots : IsLiteralPrefix(currentRoots[i].uri, uri)}
            root == getRootForURI(currentRoots, uri)
        IN  IF matching = {}
            THEN root = NoRoot
            ELSE \E i \in matching :
                    /\ root = currentRoots[i]
                    /\ \A j \in matching :
                          \/ Len(currentRoots[j].uri) < Len(currentRoots[i].uri)
                          \/ Len(currentRoots[j].uri) = Len(currentRoots[i].uri) /\ i <= j

\* two roots of the same uri and different names both match the file: URI
\* of the request, and the response acknowledges the first of them
TieResolvedToFirstSeen ==
    /\ Len(currentRoots) = 2
    /\ currentRoots[1].uri = UriRootA /\ currentRoots[2].uri = UriRootA
    /\ currentRoots[1].name = Undefined /\ currentRoots[2].name = NameA
    /\ req.pc = "done" /\ req.uri = Req.fileAXF
    /\ getRootForURI(currentRoots, req.uri) = currentRoots[1]
    /\ req.contents[1].text = <<"File content accessed via root: ">> \o UriRootA

\* C7: for every reachable root list and every URI that starts with
\* openfoodfacts://, the roots neither deny the request nor change its
\* response: the request is served as under the empty root list
RootsDoNotAffectOwnScheme ==
    StartsWith(req.uri, OffPrefix) => req = shadow

\* a request of the server's own scheme was answered without error under a
\* root list none of whose roots is a prefix of its URI
OwnSchemeServedOutsideRootsSeen ==
    /\ currentRoots # <<>>
    /\ req.pc = "done" /\ req.uri = UriInfo
    /\ ~isWithinRoots(currentRoots, req.uri)
    /\ req.outcome = "fulfilled"
    /\ ~req.contents[1].isError
    /\ req = shadow

\* C8: for every file: URI that isWithinRoots admits, routeResourceRequest
\* returns a non-error stub envelope whose text acknowledges the most
\* specific matching root: its name, or its uri when it has no name
AdmittedFileUriGetsStub ==
    [][ (ReadStep /\ StartsWith(ToLower(req'.uri), <<"f", "i", "l", "e", ":">>)
            /\ isWithinRoots(currentRoots, req'.uri))
        => LET root == getRootForURI(currentRoots, req'.uri)
           IN  /\ req'.pc = "done"
               /\ req'.outcome = "fulfilled"
               /\ Len(req'.contents) = 1
               /\ ~req'.contents[1].isError
               /\ root # NoRoot
               /\ req'.contents[1].text =
                     <<"File content accessed via root: ">> \o OrElse(root.name, root.uri) ]_vars

OutsideProjectDeniedWithoutFs ==
    (/\ req.provider \in {"handleProjectStructure", "handleFileContent"}
     /\ req.arg # <<>>
     /\ ~IsLiteralPrefix(projectRoot, PathResolve(projectRoot, req.arg)))
        => /\ req.fsCalls = <<>>
           /\ req.threw # <<>>
           /\ req.threw[1].by \in {"getDirectoryContents", "getFileContents"}
           /\ req.threw[1].message = AccessDeniedMessage
           /\ req.pc = "done"

\* the listing of the parent of the project root, and the reading of an
\* absolute path outside it, were refused before any filesystem call
OutsideProjectDeniedSeen ==
    /\ req.pc = "done"
    /\ req.uri \in {Req.listParent, Req.readAbsolute}
    /\ req.arg # <<>>
    /\ ~StartsWith(PathResolve(projectRoot, req.arg), projectRoot)
    /\ req.threw[1].message = AccessDeniedMessage
    /\ req.fsCalls = <<>>
    /\ req.contents[1].isError

\* C11: once its stat has returned, getDirectoryContents has thrown "Not
\* a directory: <path>" where the resolved path is not a directory, and
\* getFileContents "Not a file: <path>" where it is not a regular file,
\* <path> being the path as passed; where nothing has the resolved path
\* the error of stat has been thrown; in all these cases stat is the only
\* filesystem call made
WrongKindFailsWithoutRead ==
    (/\ req.provider \in {"handleProjectStructure", "handleFileContent"}
     /\ req.fsCalls # <<>>
     /\ req.pc \notin {"dir_stat", "file_stat"})
        => LET listing == req.provider = "handleProjectStructure"
               target == PathResolve(projectRoot, req.arg)
               wanted == IF listing THEN "directory" ELSE "file"
               found == IF Exists(disk, target) THEN Lookup(disk, target).kind ELSE "nothing"
           IN  /\ req.fsCalls[1] = [op |-> "stat", path |-> target]
               /\ (found \notin {wanted, "nothing"})
                    => /\ req.threw # <<>>
                       /\ req.threw[1] =
                            IF listing
                            THEN [by |-> "getDirectoryContents",
                                  message |-> <<"Not a directory: ">> \o req.arg]
                            ELSE [by |-> "getFileContents",
                                  message |-> <<"Not a file: ">> \o req.arg]
                       /\ Len(req.fsCalls) = 1
               /\ found = "nothing"
                    => /\ req.threw # <<>>
                       /\ req.threw[1].by = "fs"
                       /\ Len(req.fsCalls) = 1

\* the listing of a path that is a file has failed after its stat
ListingOfFileFailedSeen ==
    /\ disk = "outer"
    /\ req.pc = "done" /\ req.uri = Req.listLib
    /\ Lookup(disk, PathResolve(projectRoot, req.arg)).kind = "file"
    /\ req.threw = << [by |-> "getDirectoryContents",
                       message |-> <<"Not a directory: ">> \o req.arg] >>
    /\ req.fsCalls = << [op |-> "stat", path |-> Path.lib] >>

\* C12: a request for a file whose filepath is empty once the file
\* prefix is stripped, openfoodfacts://file/ as well as
\* openfoodfacts:////file/, is answered by an error entry whose message
\* is "Filepath parameter is required", and getFileContents is not called
EmptyFilepathIsParameterMissing ==
    (req.pc = "done" /\ req.uri \in {Req.fileNothing, Req.readNothing})
        => /\ req.outcome = "fulfilled"
           /\ req.contents[1].isError
           /\ req.contents[1].text[Len(req.contents[1].text)] = "Filepath parameter is required"
           /\ req.arg = <<>>
           /\ req.fsCalls = <<>>

\* C13: a request for openfoodfacts://file/lib/a.txt, the file being on
\* the disk, is dispatched to handleFileContent, which calls
\* getFileContents with "lib/a.txt" and answers with the content and the
\* metadata of the file in an entry that is no error
FileUriReachesFileContent ==
    (req.pc = "done" /\ req.uri = Req.fileLib /\ disk = "project")
        => /\ req.providers = <<"handleFileContent">>
           /\ PathResolve(projectRoot, req.arg) = Path.libFile
           /\ req.outcome = "fulfilled"
           /\ ~req.contents[1].isError
           /\ req.contents[1].text = Content.libFile
           /\ req.contents[1].props = FileMetadata(req.arg, Content.libFile)

\* C14: findTaxonomyFile stats its eight candidates in the order of
\* taxonomyPaths; once the request is served, it has stopped at the first
\* candidate that is a regular file, read that one alone and returned its
\* content with the candidate as written in taxonomyPaths, also where a
\* later candidate is a regular file; it has statted all eight, read
\* nothing and returned null exactly where no candidate is a regular file
LocatorReturnsEarliestRegularFile ==
    (req.provider = "handleTaxonomy" /\ req.arg # <<>>)
        => LET candidates == [k \in 1..TaxonomyPathCount |->
                                 PathResolve(projectRoot, taxonomyPaths(req.arg)[k])]
               regular == {k \in 1..TaxonomyPathCount :
                              /\ Exists(disk, candidates[k])
                              /\ Lookup(disk, candidates[k]).kind = "file"}
               earliest == CHOOSE k \in regular : \A j \in regular : k <= j
               stats == SelectSeq(req.fsCalls, LAMBDA c : c.op = "stat")
               reads == SelectSeq(req.fsCalls, LAMBDA c : c.op = "readFile")
               found == \E k \in 1..TaxonomyPathCount :
                            <<"metadata.filepath", taxonomyPaths(req.arg)[k]>>
                                \in req.contents[1].props
           IN  /\ Len(stats) <= TaxonomyPathCount
               /\ \A i \in 1..Len(stats) : stats[i].path = candidates[i]
               /\ req.pc = "done"
                    => IF regular # {}
                       THEN /\ Len(stats) = earliest
                            /\ reads = << [op |-> "readFile", path |-> candidates[earliest]] >>
                            /\ <<"metadata.filepath", taxonomyPaths(req.arg)[earliest]>>
                                    \in req.contents[1].props
                            /\ req.contents[1].text =
                                    formatTaxonomy(req.arg,
                                                   Lookup(disk, candidates[earliest]).content,
                                                   taxonomyPaths(req.arg)[earliest])
                       ELSE /\ Len(stats) = TaxonomyPathCount
                            /\ reads = <<>>
                            /\ ~found

\* the taxonomy file inside the project was returned although the one
\* above the project is a regular file too
EarlierCandidateReturnedSeen ==
    /\ req.pc = "done" /\ req.uri = Req.taxonomyT
    /\ Stat(disk, Path.taxonomyT) = "file" /\ Stat(disk, Path.outerTaxonomyT) = "file"
    /\ req.idx = 2
    /\ <<"metadata.filepath", taxonomyPaths(req.arg)[2]>> \in req.contents[1].props
    /\ [op |-> "readFile", path |-> Path.taxonomyT] \in {req.fsCalls[i] : i \in DOMAIN req.fsCalls}

\* C15: a request for openfoodfacts://taxonomy/categories is served by
\* handleStaticResource alone, without a call of handleTaxonomy and
\* without a filesystem call of the locator; a request for any other
\* taxonomy URI is handed to handleTaxonomy
CategoriesStaticOthersDynamic ==
    (req.pc = "done")
        => /\ (req.uri = UriCategories)
                => /\ req.providers = <<"handleStaticResource">>
                   /\ req.fsCalls = <<>>
           /\ (req.uri \in {Req.taxonomyT, Req.taxonomyNone, Req.taxonomyNothing})
                => req.providers = <<"handleTaxonomy">>

\* C16: a request for a taxonomy URI, openfoodfacts://taxonomy/categories
\* included, has made the router call handleTaxonomy, and no other
\* provider, so that the answer is what handleTaxonomy returned
TaxonomyUriCallsHandleTaxonomy ==
    (/\ req.pc = "done"
     /\ req.uri \in {UriCategories, Req.taxonomyCategories, Req.taxonomyT, Req.taxonomyNone})
        => /\ req.providers = <<"handleTaxonomy">>
           /\ req.outcome = "fulfilled"
           /\ req.threw = <<>>

\* C17: once handleTaxonomy has answered a request for a taxonomy id, the
\* locator has run once; where no candidate of the id is a regular file
\* and the id is in the mock table, the answer is the mock content in an
\* entry that is no error, with metadata isMock true and filepath
\* mock://<id>; the mock is answered only where no candidate is a regular
\* file, and the available taxonomies are enumerated on the disk, and the
\* answer is an error, exactly where no candidate is a regular file and
\* the id is not in the mock table
MockOnlyAfterLocatorFailed ==
    (req.provider = "handleTaxonomy" /\ req.arg # <<>> /\ req.pc = "done")
        => LET candidates == [k \in 1..TaxonomyPathCount |->
                                 PathResolve(projectRoot, taxonomyPaths(req.arg)[k])]
               located == \E k \in 1..TaxonomyPathCount :
                              /\ Exists(disk, candidates[k])
                              /\ Lookup(disk, candidates[k]).kind = "file"
               mocked == req.arg \in MockTaxonomyIds
               entry == req.contents[1]
               isMock == <<"metadata.isMock", <<"true">> >> \in entry.props
               enumerated == \E i \in DOMAIN req.fsCalls, k \in DOMAIN TaxonomyDirs :
                                 req.fsCalls[i].path = TaxonomyDirs[k]
               firstStats == {i \in DOMAIN req.fsCalls :
                                 req.fsCalls[i] = [op |-> "stat", path |-> candidates[1]]}
           IN  /\ Cardinality(firstStats) = 1
               /\ (~located /\ mocked)
                    => /\ ~entry.isError
                       /\ entry.text = <<"# Mock ">> \o req.arg
                                          \o <<" Taxonomy (fallback content)", "\n", "\n",
                                               "mockTaxonomies[">> \o req.arg \o <<"]">>
                       /\ entry.props = { <<"metadata.taxonomyId", req.arg>>,
                                          <<"metadata.filepath", <<"mock://">> \o req.arg>>,
                                          <<"metadata.isMock", <<"true">> >> }
               /\ isMock => ~located
               /\ enumerated <=> (~located /\ ~mocked)
               /\ entry.isError <=> (~located /\ ~mocked)

\* the mock of categories was answered after all eight candidates were
\* statted in vain
MockAnsweredSeen ==
    /\ req.pc = "done" /\ req.uri = Req.taxonomyCategories
    /\ req.arg = Categories
    /\ Len(SelectSeq(req.fsCalls, LAMBDA c : c.op = "stat")) = TaxonomyPathCount
    /\ <<"metadata.isMock", <<"true">> >> \in req.contents[1].props
    /\ ~req.contents[1].isError

\* C18: without developer mode the listing holds no developerOnly
\* resource, no request reaches handleProjectStructure or
\* handleResourceTemplate, none for code-patterns or file-organization
\* reaches handleStaticResource, and every request whose URL the router
\* dispatches to one of them is answered by the access-denied entry
DeveloperOnlyNeverServedInStandardMode ==
    ~developerMode
        => LET listed == filterResourcesForStandardMode(availableResources)
               url == ParseURL(req.uri)
               routed == /\ url.ok /\ url.protocol = ProtocolOff
                         /\ \/ StartsWith(url.pathname, PathnameStructure)
                            \/ StartsWith(url.pathname, PathnameTemplate)
           IN  /\ \A i \in DOMAIN listed : ~listed[i].developerOnly
               /\ \A i \in DOMAIN req.providers :
                      req.providers[i] \notin {"handleProjectStructure", "handleResourceTemplate"}
               /\ (req.uri \in {UriCodePatterns, UriFileOrganization}) => req.providers = <<>>
               /\ (req.pc = "done" /\ (routed \/ req.uri \in {UriCodePatterns, UriFileOrganization}))
                    => req.contents = << AccessDeniedEntry(req.uri) >>

\* C19: every line of the file that is blank or begins with "#" is in
\* the formatted content as it is, nothing added before it, at the place
\* of the line: the four lines of the heading precede the lines of the
\* file and the four lines of the navigation follow them
CommentAndBlankLinesVerbatim ==
    (processed # <<>>)
        => LET input == Split(taxonomyFile, "\n")
               output == Split(processed, "\n")
           IN  /\ Len(output) = Len(input) + 8
               /\ \A i \in DOMAIN input :
                      (\/ \A j \in DOMAIN input[i] : input[i][j] \in Whitespace
                       \/ (input[i] # <<>> /\ input[i][1] = "#"))
                          => output[4 + i] = input[i]

\* a comment after an indented entry was kept as it is, at its place,
\* and the entry before it was formatted
CommentAfterEntryKeptSeen ==
    /\ processed # <<>>
    /\ taxonomyFile = <<" ", " ", "a", ":", "b", "\n", "#", " ", "x">>
    /\ Split(processed, "\n")[5] = <<" ", " ", "-", " ", "a", ":", " ", "b">>
    /\ Split(processed, "\n")[6] = <<"#", " ", "x">>

\* C20: every entry line of the file with 2k spaces before its first
\* other character is formatted with exactly 2k spaces, k groups of two,
\* before its "- " marker: none for none, two groups for four spaces
EntryIndentedByTwoSpaceGroups ==
    (processed # <<>>)
        => LET input == Split(taxonomyFile, "\n")
               output == Split(processed, "\n")
           IN  \A i \in DOMAIN input, k \in 0..MaxIndent :
                  (/\ Len(input[i]) > 2 * k
                   /\ \A j \in 1..(2 * k) : input[i][j] = " "
                   /\ input[i][2 * k + 1] \notin Whitespace
                   /\ input[i][1] # "#")
                      => /\ Len(output[4 + i]) >= 2 * k + 2
                         /\ \A j \in 1..(2 * k) : output[4 + i][j] = " "
                         /\ output[4 + i][2 * k + 1] = "-"
                         /\ output[4 + i][2 * k + 2] = " "

\* an entry after four spaces was formatted with two groups of two spaces
\* before its marker
FourSpacesTwoGroupsSeen ==
    /\ processed # <<>>
    /\ taxonomyFile = <<"a", "\n", " ", " ", " ", " ", "a", ":", "b">>
    /\ Split(processed, "\n")[5] = <<"-", " ", "a">>
    /\ Split(processed, "\n")[6] = <<" ", " ", " ", " ", "-", " ", "a", ":", " ", "b">>

LanguagePrefixKeptInEntryName ==
    (/\ req.pc = "done" /\ req.uri = Req.taxonomyT /\ disk = "project"
     /\ Split(Content.taxonomy, "\n")[3] = <<"e", "n", ":", "a">>
     /\ Split(Content.taxonomy, "\n")[4] = <<" ", " ", "e", "n", ":", "b", ":", "d", " ", "e", ":", "f">>)
        => LET output == Split(req.contents[1].text, "\n")
           IN  /\ output[4 + 3] = <<"-", " ", "e", "n", ":", "a">>
               /\ output[4 + 4] = <<" ", " ", "-", " ", "e", "n", ":", "b", ":", " ", "d", " ", "e", ":", "f">>

OneEntryWithRequestUri ==
    (req.pc = "done" /\ req.outcome = "fulfilled")
        => /\ Len(req.contents) = 1
           /\ req.contents[1].uri = req.uri

\* a file was served after two suspensions in one entry with the URI of
\* the request
FileServedInOneEntrySeen ==
    /\ req.pc = "done" /\ req.outcome = "fulfilled"
    /\ req.uri = Req.readLibFile
    /\ Len(req.fsCalls) = 2
    /\ req.contents = << Entry(Req.readLibFile, Content.libFile, FALSE,
                               FileMetadata(req.arg, Content.libFile)) >>

\* C25: a request for a file: URI is served in the step that starts it,
\* without a suspension, and its answer is that of one root list, the
\* current one, for the access check and for the lookup of the root: it
\* is refused where the list is not empty and no root of it is a prefix
\* of the URI; where a root of the list is a prefix, the answer names a
\* root of that list that is one; "File is not within any defined root"
\* is answered under the empty list alone
FileRequestSeesOneRootList ==
    [][ (ReadStep /\ StartsWith(ToLower(req'.uri), <<"f", "i", "l", "e", ":">>))
        => LET matching == {i \in DOMAIN currentRoots :
                               IsLiteralPrefix(currentRoots[i].uri, req'.uri)}
           IN  /\ req'.pc = "done"
               /\ req'.fsCalls = <<>>
               /\ req'.outcome = "fulfilled"
               /\ CASE currentRoots = <<>> ->
                          req'.contents[1].text =
                              <<"Error processing request: ", "File is not within any defined root">>
                     [] matching = {} ->
                          req'.contents = << AccessDeniedEntry(req'.uri) >>
                     [] OTHER ->
                          \E i \in matching :
                              req'.contents[1].text =
                                  <<"File content accessed via root: ">>
                                      \o OrElse(currentRoots[i].name, currentRoots[i].uri) ]_vars

\* after a roots update a file: request was admitted and answered with
\* the one root of the list
FileServedFromCurrentListSeen ==
    /\ lastUpdate.seen
    /\ currentRoots = << [uri |-> UriRootA, name |-> NameA] >>
    /\ req.pc = "done" /\ req.uri = Req.fileAB
    /\ req.contents[1].text = <<"File content accessed via root: ">> \o NameA

\* C26: a request that has been suspended on a filesystem call is, at
\* every moment and whatever roots updates were handled meanwhile, in the
\* state of the same request served with no root ever defined, so that its
\* response is not changed by them; a step of a request leaves the root
\* list as it is, and a roots update leaves the request as it is
RootsUpdateLeavesSuspendedRequest ==
    /\ [](req.fsCalls # <<>> => req = shadow)
    /\ [][req' # req => currentRoots' = currentRoots]_vars
    /\ [][lastUpdate' # lastUpdate => req' = req]_vars

\* a request is suspended on the read of a file while the root list,
\* set by an update, admits no URI of the server's scheme by prefix
SuspendedUnderForeignRootsSeen ==
    /\ req.pc = "file_read" /\ req.uri = Req.readLibFile
    /\ lastUpdate.seen
    /\ currentRoots = << [uri |-> UriRootA, name |-> Undefined] >>
    /\ ~isWithinRoots(currentRoots, req.uri)
    /\ req = shadow

\* C27: every path getDirectoryContents or getFileContents has issued a
\* stat, a readdir or a readFile on is the project root or lies below it
\* in the directory tree
AccessorStaysInsideProjectTree ==
    (req.provider \in {"handleProjectStructure", "handleFileContent"})
        => \A i \in DOMAIN req.fsCalls :
              \/ req.fsCalls[i].path = projectRoot
              \/ IsLiteralPrefix(projectRoot \o <<"/">>, req.fsCalls[i].path)

\* C28: every path findTaxonomyFile has issued a stat or a readFile on
\* while a taxonomy request is served lies below the project root
LocatorStaysInsideProjectRoot ==
    (req.provider = "handleTaxonomy")
        => \A i \in DOMAIN req.fsCalls :
              (req.fsCalls[i].op \in {"stat", "readFile"})
                  => IsLiteralPrefix(projectRoot \o <<"/">>, req.fsCalls[i].path)

\* C29: no envelope routeResourceRequest returns has the metadata isMock
\* true: no request is answered with the mock of a taxonomy
MockNeverAnsweredThroughRouter ==
    (req.pc = "done" /\ req.outcome = "fulfilled")
        => \A i \in DOMAIN req.contents :
              <<"metadata.isMock", <<"true">> >> \notin req.contents[i].props

\* the GET /sse responses that have not emitted "close"
OpenConnections ==
    { c \in DOMAIN sseOpen : sseOpen[c] }

\* C30: the transport slot refers to the most recently opened connection
\* that is still open, and is null only when no connection is open; a POST
\* to /messages is answered 400 only when no connection is open
SlotIsLatestOpenConnection ==
    /\ [](transport = IF OpenConnections = {} THEN 0
                      ELSE CHOOSE c \in OpenConnections : \A d \in OpenConnections : d <= c)
    /\ [][(posted' # posted /\ posted'.status = 400) => OpenConnections = {}]_vars

====
